---- MODULE Spec2Model ----
(***************************************************************************)
(* News/Bench service worker: the install, activate and fetch listeners of *)
(* the two worker variants of the repository.                              *)
(*   variant "A" = src/unnamed/part_000 (CACHE_NAME 'newsbench-v2')        *)
(*   variant "B" = src/static/sw.js     (CACHE_NAME 'newsbench-v1')        *)
(* A URL path is the sequence of its segments: '/static/style.css' is      *)
(* <<"static", "style.css">>, '/' is <<"">>, '/api' is <<"api">> and       *)
(* '/api/' is <<"api", "">>.  A promise chain is cut at every asynchronous *)
(* completion (cache open/match/put/keys/delete, network fetch): each is   *)
(* one action, so handlers interleave the way the event loop lets them.    *)
(***************************************************************************)
EXTENDS Naturals, Sequences, FiniteSets, TLC

VARIABLES
    variant,        \* which worker script is running: "A" or "B"
    phase,          \* position of the install / activate promise chains
    fetched,        \* addAll: asset requests whose network fetch succeeded
    skipWaiting,    \* self.skipWaiting() has been called
    akeys,          \* activate: the bucket names caches.keys() produced
    adeleted,       \* activate: names whose caches.delete() has completed
    claimed,        \* self.clients.claim() has been called (this run)
    activations,    \* number of completed activate runs
    cacheKeys,      \* CacheStorage: bucket names in creation order
    store,          \* CacheStorage: bucket name -> request -> response
    handlers,       \* the fetch events dispatched so far, in dispatch order
    prior           \* a fire-and-forget write of the prior worker version

vars == <<variant, phase, fetched, skipWaiting, akeys, adeleted, claimed,
          activations, cacheKeys, store, handlers, prior>>

(* ------------------------------ bounds -------------------------------- *)

\* fetch events dispatched in one behaviour
MaxFetch == 2

\* times the activate event is dispatched in one behaviour
MaxActivate == 2

(* ----------------------------- constants ------------------------------ *)

Variants == {"A", "B"}

CACHE_NAME_A == "newsbench-v2"

CACHE_NAME_B == "newsbench-v1"

CACHE_NAME == IF variant = "A" THEN CACHE_NAME_A ELSE CACHE_NAME_B

API_HOST == "news-bench.onrender.com"

\* host of self.location.origin (the app's own origin; the API is cross-origin)
SelfHost == "newsbench.app"

OtherHost == "cdn.example"

\* every bucket name a version of this worker has used
BucketNames == {"newsbench-v0", "newsbench-v1", "newsbench-v2"}

Req(h, p) == [host |-> h, path |-> p]

\* part_000 lists relative URLs; they resolve against the worker script's
\* directory, here the root of the origin
ResolveRelative(name) == Req(SelfHost, <<name>>)

STATIC_ASSETS_A == <<"index.html", "style.css", "manifest.json", "offline.html">>

STATIC_ASSETS_B == << <<"">>, <<"static", "style.css">>, <<"static", "manifest.json">> >>

\* the requests cache.addAll(STATIC_ASSETS) fetches and stores
AssetRequests ==
    IF variant = "A"
    THEN {ResolveRelative(STATIC_ASSETS_A[i]) : i \in 1..Len(STATIC_ASSETS_A)}
    ELSE {Req(SelfHost, STATIC_ASSETS_B[i]) : i \in 1..Len(STATIC_ASSETS_B)}

OfflinePage == ResolveRelative("offline.html")

\* requests pages issue besides those for the listed assets: a static file
\* not in the list, the API under its usual path and under a versioned
\* path and, for part_000, which tests the host, the API host and a
\* third-party script (sw.js tests the path only)
PageRequests ==
    { Req(SelfHost, <<"static", "app.js">>),
      Req(SelfHost, <<"api", "articles">>),
      Req(SelfHost, <<"v1", "api", "articles">>) } \cup
    IF variant = "A"
    THEN {Req(API_HOST, <<"articles">>), Req(OtherHost, <<"lib.js">>)}
    ELSE {}

\* every request the model stores or looks up
Requests ==
    { Req(SelfHost, <<"static", "app.js">>),
      Req(SelfHost, <<"api", "articles">>),
      Req(SelfHost, <<"v1", "api", "articles">>),
      Req(API_HOST, <<"articles">>),
      Req(OtherHost, <<"lib.js">>) } \cup
    {ResolveRelative(STATIC_ASSETS_A[i]) : i \in 1..Len(STATIC_ASSETS_A)} \cup
    {Req(SelfHost, STATIC_ASSETS_B[i]) : i \in 1..Len(STATIC_ASSETS_B)}

(* ----------------------------- responses ------------------------------ *)

NoEntry == [kind |-> "none"]          \* caches.match resolved with undefined

Pending == [kind |-> "pending"]       \* respondWith's promise has not settled

Rejected == [kind |-> "rejected"]     \* respondWith's promise rejected

\* response the network gave at install (addAll only stores ok responses)
InstallResponse(r) == [kind |-> "net", status |-> 200, from |-> 0, req |-> r]

\* response the network gave to fetch event i
NetResponse(i, r, status) == [kind |-> "net", status |-> status, from |-> i, req |-> r]

\* entry a prior worker version stored
PriorResponse(r) == [kind |-> "prior", status |-> 200, from |-> 0, req |-> r]

Statuses == {200, 500}

\* the status drawn where no branch of the code and no claim looks at it
\* (API branch, last branch)
PlainStatuses == {200}

Quote(s) == "\"" \o s \o "\""

\* a serializer that puts a space after the colon
JSONStringifySpaced(key, value) == "{" \o Quote(key) \o ": " \o Quote(value) \o "}"

\* JSON.stringify of an object with one string property
JSONStringify(key, value) == "{" \o Quote(key) \o ":" \o Quote(value) \o "}"

\* new Response(JSON.stringify({ error: 'Offline' }), { headers: {...} })
OfflineResponse ==
    [kind |-> "synth", status |-> 200,
     body |-> JSONStringify("error", "Offline"),
     contentType |-> "application/json"]

(* --------------------------- classification --------------------------- *)

\* pathname.startsWith('/' + seg + '/')
StartsWithSegment(path, seg) == Len(path) >= 2 /\ path[1] = seg

\* pathname.includes('/' + seg + '/')
IncludesSegment(path, seg) == \E i \in 1..(Len(path) - 1) : path[i] = seg

IsApiA(r) == r.host = API_HOST \/ IncludesSegment(r.path, "api")

IsApiB(r) == StartsWithSegment(r.path, "api")

IsStaticA(r) == r.host = SelfHost

IsStaticB(r) == StartsWithSegment(r.path, "static")

\* a listener that tests the static rule before the API rule
ClassifyStaticFirst(v, r) ==
    IF v = "A"
    THEN IF IsStaticA(r) THEN "static" ELSE IF IsApiA(r) THEN "api" ELSE "else"
    ELSE IF IsStaticB(r) THEN "static" ELSE IF IsApiB(r) THEN "api" ELSE "else"

\* the branch of the fetch listener that handles r
Classify(v, r) ==
    IF v = "A"
    THEN IF IsApiA(r) THEN "api" ELSE IF IsStaticA(r) THEN "static" ELSE "else"
    ELSE IF IsApiB(r) THEN "api" ELSE IF IsStaticB(r) THEN "static" ELSE "else"

\* the order in which the listener tests its rules
RuleOrder == <<"api", "static", "else">>

\* the condition of one rule; the last respondWith is unconditional
RuleMatches(v, b, r) ==
    IF b = "api" THEN (IF v = "A" THEN IsApiA(r) ELSE IsApiB(r))
    ELSE IF b = "static" THEN (IF v = "A" THEN IsStaticA(r) ELSE IsStaticB(r))
    ELSE TRUE

\* how many times event.respondWith is invoked for r: a rule is reached
\* only if no earlier rule matched, since each matching rule returns
RespondWithCalls(v, r) ==
    Cardinality({k \in 1..Len(RuleOrder) :
                    /\ RuleMatches(v, RuleOrder[k], r)
                    /\ \A j \in 1..(k - 1) : ~RuleMatches(v, RuleOrder[j], r)})

(* ---------------------------- cache storage --------------------------- *)

EmptyBucket == [r \in Requests |-> NoEntry]

Range(s) == {s[i] : i \in 1..Len(s)}

Buckets == Range(cacheKeys)

RECURSIVE MatchFrom(_, _, _, _)
MatchFrom(keys, st, r, i) ==
    IF i > Len(keys) THEN NoEntry
    ELSE IF st[keys[i]][r] # NoEntry THEN st[keys[i]][r]
    ELSE MatchFrom(keys, st, r, i + 1)

\* caches.match(request): the first bucket, in creation order, holding it
CachesMatch(r) == MatchFrom(cacheKeys, store, r, 1)

\* caches.open(name): the bucket is created when absent
OpenKeys(name) == IF name \in Buckets THEN cacheKeys ELSE Append(cacheKeys, name)

\* caches.delete(name)
DeleteKeys(name) == SelectSeq(cacheKeys, LAMBDA k : k # name)

(* ------------------------------- Init --------------------------------- *)

\* requests for which a prior worker version left an entry in its bucket
PriorStored == {Req(SelfHost, <<"static", "style.css">>), Req(SelfHost, <<"">>)}

PriorBucket == [r \in Requests |-> IF r \in PriorStored THEN PriorResponse(r) ELSE NoEntry]

\* the buckets prior versions left behind: none, one or two, in creation order
PriorKeySeqs(current) ==
    {<<>>} \cup
    {<<a>> : a \in BucketNames \ {current}} \cup
    UNION {{<<a, b>> : b \in BucketNames \ {current, a}} : a \in BucketNames \ {current}}

NoPriorWrite == [tag |-> "none", write |-> "none"]

InitBase ==
    /\ variant \in Variants
    /\ phase = "installing"
    /\ fetched = {}
    /\ skipWaiting = FALSE
    /\ akeys = {}
    /\ adeleted = {}
    /\ claimed = FALSE
    /\ activations = 0
    /\ cacheKeys \in PriorKeySeqs(IF variant = "A" THEN CACHE_NAME_A ELSE CACHE_NAME_B)
    /\ store = [b \in BucketNames |->
                   IF b \in Range(cacheKeys) THEN PriorBucket ELSE EmptyBucket]
    /\ handlers = <<>>

\* a worker starting with no handler of a prior version still running
Init == InitBase /\ prior = NoPriorWrite

\* the writes of a prior version that can be pending when the worker starts:
\* none, or, for part_000 ('newsbench-v2') replacing sw.js ('newsbench-v1'),
\* the caches.open(CACHE_NAME).then(cache => cache.put(...)) of a sw.js fetch
\* handler that has its network response
PriorWrites(v, keys) ==
    {NoPriorWrite} \cup
    IF v = "A" /\ CACHE_NAME_B \in Range(keys)
    THEN {[tag |-> CACHE_NAME_B, write |-> "open"]}
    ELSE {}

\* a worker starting beside whatever the prior version still has pending
InitRace == InitBase /\ prior \in PriorWrites(variant, cacheKeys)

(* ------------------------------ install ------------------------------- *)

\* caches.open(CACHE_NAME) resolves
InstallOpen ==
    /\ phase = "installing"
    /\ cacheKeys' = OpenKeys(CACHE_NAME)
    /\ phase' = "adding"
    /\ UNCHANGED <<variant, fetched, skipWaiting, akeys, adeleted, claimed,
                   activations, store, handlers, prior>>

\* addAll: the fetch of one listed asset resolves with an ok response
InstallFetchOk(r) ==
    /\ phase = "adding"
    /\ r \in AssetRequests \ fetched
    /\ fetched' = fetched \cup {r}
    /\ UNCHANGED <<variant, phase, skipWaiting, akeys, adeleted, claimed,
                   activations, cacheKeys, store, handlers, prior>>

\* addAll: the fetch of one listed asset rejects or is not ok; addAll
\* rejects, nothing is stored, the chain never reaches skipWaiting
InstallFetchFail(r) ==
    /\ phase = "adding"
    /\ r \in AssetRequests \ fetched
    /\ phase' = "redundant"
    /\ UNCHANGED <<variant, fetched, skipWaiting, akeys, adeleted, claimed,
                   activations, cacheKeys, store, handlers, prior>>

\* an addAll that fetches and stores nothing
AddAllStoreNothing(bucket, rs) == bucket

\* the bucket after addAll stored every fetched response
AddAllStore(bucket, rs) == [r \in Requests |-> IF r \in rs THEN InstallResponse(r) ELSE bucket[r]]

\* addAll resolves: every listed asset was fetched and all are stored
InstallStore ==
    /\ phase = "adding"
    /\ fetched = AssetRequests
    /\ store' = [store EXCEPT ![CACHE_NAME] = AddAllStore(@, fetched)]
    /\ phase' = "added"
    /\ UNCHANGED <<variant, fetched, skipWaiting, akeys, adeleted, claimed,
                   activations, cacheKeys, handlers, prior>>

\* addAll rejects while storing (the batch put fails): nothing is stored
InstallStoreFail ==
    /\ phase = "adding"
    /\ fetched = AssetRequests
    /\ phase' = "redundant"
    /\ UNCHANGED <<variant, fetched, skipWaiting, akeys, adeleted, claimed,
                   activations, cacheKeys, store, handlers, prior>>

\* skipWaiting called beside addAll instead of chained after it
SkipWaitingUnchained == phase \in {"adding", "added"}

\* .then(() => self.skipWaiting()) runs once addAll's promise has resolved
SkipWaitingReady == phase = "added"

\* skipWaiting is called and the promise given to waitUntil settles
InstallSkipWaiting ==
    /\ SkipWaitingReady
    /\ skipWaiting' = TRUE
    /\ phase' = "installed"
    /\ UNCHANGED <<variant, fetched, akeys, adeleted, claimed, activations,
                   cacheKeys, store, handlers, prior>>

(* ------------------------------ activate ------------------------------ *)

\* no fetch handler has a step left to take
Quiescent ==
    \A i \in 1..Len(handlers) :
        handlers[i].pc = "done" /\ handlers[i].write \in {"none", "done", "failed"}

\* the platform dispatches activate to the installed worker; a second
\* dispatch re-runs the listener on the activated worker, between fetch events
ActivateDispatch ==
    /\ phase \in {"installed", "activated"}
    /\ activations < MaxActivate
    /\ Quiescent
    /\ phase' = "activating"
    /\ akeys' = {}
    /\ adeleted' = {}
    /\ claimed' = FALSE
    /\ UNCHANGED <<variant, fetched, skipWaiting, activations, cacheKeys,
                   store, handlers, prior>>

\* caches.keys() resolves with the names existing now
ActivateKeys ==
    /\ phase = "activating"
    /\ akeys' = Buckets
    /\ phase' = "deleting"
    /\ UNCHANGED <<variant, fetched, skipWaiting, adeleted, claimed,
                   activations, cacheKeys, store, handlers, prior>>

\* a filter that keeps no key
KeysToDeleteNone(keys) == {}

\* a missing filter: every key is deleted
KeysToDeleteAll(keys) == keys

\* keys.filter(key => key !== CACHE_NAME)
KeysToDelete(keys) == {k \in keys : k # CACHE_NAME}

\* a handle the prior worker opened refers to the deleted bucket object
OrphanPrior(k) ==
    IF prior.tag = k /\ prior.write = "put" THEN [prior EXCEPT !.write = "orphan"] ELSE prior

\* one caches.delete(key) of the Promise.all completes
ActivateDelete(k) ==
    /\ phase = "deleting"
    /\ k \in KeysToDelete(akeys) \ adeleted
    /\ cacheKeys' = DeleteKeys(k)
    /\ store' = [store EXCEPT ![k] = EmptyBucket]
    /\ adeleted' = adeleted \cup {k}
    /\ prior' = OrphanPrior(k)
    /\ UNCHANGED <<variant, phase, fetched, skipWaiting, akeys, claimed,
                   activations, handlers>>

\* claim called without waiting for the deletes
ClaimUnchained == phase = "deleting"

\* Promise.all(...) has resolved: every delete it waits for has completed
ClaimReady == phase = "deleting" /\ adeleted = KeysToDelete(akeys)

\* .then(() => self.clients.claim())
ActivateClaim ==
    /\ ClaimReady
    /\ claimed' = TRUE
    /\ phase' = "claiming"
    /\ UNCHANGED <<variant, fetched, skipWaiting, akeys, adeleted, activations,
                   cacheKeys, store, handlers, prior>>

\* the claim settles, and with it the promise given to waitUntil
ActivateSettle ==
    /\ phase = "claiming"
    /\ phase' = "activated"
    /\ activations' = activations + 1
    /\ UNCHANGED <<variant, fetched, skipWaiting, akeys, adeleted, claimed,
                   cacheKeys, store, handlers, prior>>

(* ------------------------------- fetch -------------------------------- *)

\* a fetch event as the listener first sees it
NewHandler(r) ==
    [req |-> r,
     branch |-> Classify(variant, r),   \* which respondWith call is made
     responds |-> RespondWithCalls(variant, r),  \* respondWith invocations
     pc |-> Classify(variant, r),       \* what the handler awaits next
     resp |-> Pending,                  \* what respondWith's promise settled to
     net |-> 0,                         \* calls of fetch(event.request)
     network |-> "none",                \* how that fetch ended: "ok", "failed"
     reads |-> 0,                       \* calls of caches.match
     write |-> "none",                  \* caches.open(CACHE_NAME).then(put)
     matched |-> Pending,               \* what caches.match(event.request) gave
     cachedAtDispatch |-> CachesMatch(r) # NoEntry]

\* the platform dispatches a fetch event to the activated worker
FetchDispatch(r) ==
    /\ phase = "activated"
    /\ Len(handlers) < MaxFetch
    /\ r \in PageRequests \cup AssetRequests
    /\ handlers' = Append(handlers, NewHandler(r))
    /\ UNCHANGED <<variant, phase, fetched, skipWaiting, akeys, adeleted,
                   claimed, activations, cacheKeys, store, prior>>

Others == <<variant, phase, fetched, skipWaiting, akeys, adeleted, claimed,
            activations, cacheKeys, store, prior>>

\* API branch: fetch(event.request) resolves
ApiFetchOk(i, status) ==
    /\ i \in 1..Len(handlers)
    /\ handlers[i].pc = "api"
    /\ handlers' = [handlers EXCEPT ![i].pc = "done", ![i].net = @ + 1, ![i].network = "ok",
                        ![i].resp = NetResponse(i, handlers[i].req, status)]
    /\ UNCHANGED Others

\* API branch: fetch rejects; .catch answers with the synthesized response
ApiFetchFail(i) ==
    /\ i \in 1..Len(handlers)
    /\ handlers[i].pc = "api"
    /\ handlers' = [handlers EXCEPT ![i].pc = "done", ![i].net = @ + 1, ![i].network = "failed",
                        ![i].resp = OfflineResponse]
    /\ UNCHANGED Others

\* a handler that ignores the lookup and always fetches
UseCachedNever(cached) == FALSE

\* cached || fetch(...): a stored response is used when there is one
UseCached(cached) == cached # NoEntry

\* static branch: caches.match(event.request) resolves
StaticMatch(i) ==
    /\ i \in 1..Len(handlers)
    /\ handlers[i].pc = "static"
    /\ LET m == CachesMatch(handlers[i].req) IN
       handlers' = [handlers EXCEPT
                        ![i].reads = @ + 1,
                        ![i].matched = m,
                        ![i].pc = IF UseCached(m) THEN "done" ELSE "static_fetch",
                        ![i].resp = IF UseCached(m) THEN m ELSE Pending]
    /\ UNCHANGED Others

\* a handler that returns the response only from the put's continuation
StaticFetchOkAwaitsWrite(i, status) ==
    /\ i \in 1..Len(handlers)
    /\ handlers[i].pc = "static_fetch"
    /\ handlers' = [handlers EXCEPT ![i].pc = "done", ![i].net = @ + 1, ![i].network = "ok",
                        ![i].write = "open",
                        ![i].resp = Pending]
    /\ UNCHANGED Others

\* a handler that stores only ok responses
StaticFetchOkStoresOnlyOk(i, status) ==
    /\ i \in 1..Len(handlers)
    /\ handlers[i].pc = "static_fetch"
    /\ handlers' = [handlers EXCEPT ![i].pc = "done", ![i].net = @ + 1, ![i].network = "ok",
                        ![i].write = IF status = 200 THEN "open" ELSE "none",
                        ![i].resp = NetResponse(i, handlers[i].req, status)]
    /\ UNCHANGED Others

\* static branch, miss: fetch resolves; the clone is handed to
\* caches.open(...).then(put) and the response is returned without waiting
StaticFetchOk(i, status) ==
    /\ i \in 1..Len(handlers)
    /\ handlers[i].pc = "static_fetch"
    /\ handlers' = [handlers EXCEPT ![i].pc = "done", ![i].net = @ + 1, ![i].network = "ok",
                        ![i].write = "open",
                        ![i].resp = NetResponse(i, handlers[i].req, status)]
    /\ UNCHANGED Others

\* no variant chains a fallback
StaticFailurePcNoFallback(v) == "done"

\* what follows a rejected fetch in the static branch: part_000 chains
\* .catch(() => caches.match('offline.html')), sw.js chains nothing
StaticFailurePc(v) == IF v = "A" THEN "offline_match" ELSE "done"

\* static branch, miss: fetch rejects
StaticFetchFail(i) ==
    /\ i \in 1..Len(handlers)
    /\ handlers[i].pc = "static_fetch"
    /\ handlers' = [handlers EXCEPT
                        ![i].net = @ + 1, ![i].network = "failed",
                        ![i].pc = StaticFailurePc(variant),
                        ![i].resp = IF StaticFailurePc(variant) = "done"
                                    THEN Rejected ELSE Pending]
    /\ UNCHANGED Others

\* part_000: caches.match('offline.html') resolves, with undefined if absent
OfflineMatch(i) ==
    /\ i \in 1..Len(handlers)
    /\ handlers[i].pc = "offline_match"
    /\ handlers' = [handlers EXCEPT ![i].pc = "done", ![i].reads = @ + 1,
                        ![i].resp = CachesMatch(OfflinePage)]
    /\ UNCHANGED Others

\* no variant stores what the last branch fetched
WritesThroughNever(v) == FALSE

\* last branch: sw.js stores a clone of the network response, part_000 does not
WritesThrough(v) == v = "B"

\* last branch: fetch resolves
ElseFetchOk(i, status) ==
    /\ i \in 1..Len(handlers)
    /\ handlers[i].pc = "else"
    /\ handlers' = [handlers EXCEPT ![i].pc = "done", ![i].net = @ + 1, ![i].network = "ok",
                        ![i].write = IF WritesThrough(variant) THEN "open" ELSE "none",
                        ![i].resp = NetResponse(i, handlers[i].req, status)]
    /\ UNCHANGED Others

\* last branch: fetch rejects; .catch(() => caches.match(event.request))
ElseFetchFail(i) ==
    /\ i \in 1..Len(handlers)
    /\ handlers[i].pc = "else"
    /\ handlers' = [handlers EXCEPT ![i].pc = "else_match", ![i].net = @ + 1, ![i].network = "failed"]
    /\ UNCHANGED Others

\* last branch: the fallback caches.match resolves, with undefined if absent
ElseMatch(i) ==
    /\ i \in 1..Len(handlers)
    /\ handlers[i].pc = "else_match"
    /\ LET m == CachesMatch(handlers[i].req) IN
       handlers' = [handlers EXCEPT ![i].pc = "done", ![i].reads = @ + 1,
                        ![i].matched = m, ![i].resp = m]
    /\ UNCHANGED Others

\* fire-and-forget write: caches.open(CACHE_NAME) resolves
WriteOpen(i) ==
    /\ i \in 1..Len(handlers)
    /\ handlers[i].write = "open"
    /\ cacheKeys' = OpenKeys(CACHE_NAME)
    /\ handlers' = [handlers EXCEPT ![i].write = "put"]
    /\ UNCHANGED <<variant, phase, fetched, skipWaiting, akeys, adeleted,
                   claimed, activations, store, prior>>

\* a put that keeps an entry already stored for the request
WritePutIfAbsent(i) ==
    /\ i \in 1..Len(handlers)
    /\ handlers[i].write = "put"
    /\ store' = IF CACHE_NAME \in Buckets /\ store[CACHE_NAME][handlers[i].req] = NoEntry
                THEN [store EXCEPT ![CACHE_NAME][handlers[i].req] = handlers[i].resp]
                ELSE store
    /\ handlers' = [handlers EXCEPT ![i].write = "done"]
    /\ UNCHANGED <<variant, phase, fetched, skipWaiting, akeys, adeleted,
                   claimed, activations, cacheKeys, prior>>

\* fire-and-forget write: cache.put(event.request, clone) completes; a put
\* through a handle whose bucket was deleted meanwhile changes no bucket
WritePut(i) ==
    /\ i \in 1..Len(handlers)
    /\ handlers[i].write = "put"
    /\ store' = IF CACHE_NAME \in Buckets
                THEN [store EXCEPT ![CACHE_NAME][handlers[i].req] = handlers[i].resp]
                ELSE store
    /\ handlers' = [handlers EXCEPT ![i].write = "done"]
    /\ UNCHANGED <<variant, phase, fetched, skipWaiting, akeys, adeleted,
                   claimed, activations, cacheKeys, prior>>

\* fire-and-forget write: cache.put rejects; nothing observes the rejection
WritePutFail(i) ==
    /\ i \in 1..Len(handlers)
    /\ handlers[i].write = "put"
    /\ handlers' = [handlers EXCEPT ![i].write = "failed"]
    /\ UNCHANGED Others

(* ---------------- a handler of the prior worker version ---------------- *)

\* the request the prior version's handler fetched and is about to store
PriorWriteReq == Req(SelfHost, <<"static", "app.js">>)

\* prior version: caches.open(its CACHE_NAME) resolves, creating the bucket
\* again if activate has deleted it
PriorOpen ==
    /\ prior.write = "open"
    /\ cacheKeys' = OpenKeys(prior.tag)
    /\ prior' = [prior EXCEPT !.write = "put"]
    /\ UNCHANGED <<variant, phase, fetched, skipWaiting, akeys, adeleted,
                   claimed, activations, store, handlers>>

\* prior version: cache.put(event.request, clone) completes
PriorPut ==
    /\ prior.write = "put"
    /\ store' = [store EXCEPT ![prior.tag][PriorWriteReq] = PriorResponse(PriorWriteReq)]
    /\ prior' = [prior EXCEPT !.write = "done"]
    /\ UNCHANGED <<variant, phase, fetched, skipWaiting, akeys, adeleted,
                   claimed, activations, cacheKeys, handlers>>

\* prior version: the put goes to a bucket object activate has deleted
PriorPutOrphan ==
    /\ prior.write = "orphan"
    /\ prior' = [prior EXCEPT !.write = "done"]
    /\ UNCHANGED <<variant, phase, fetched, skipWaiting, akeys, adeleted,
                   claimed, activations, cacheKeys, store, handlers>>

(* ------------------------------- Next --------------------------------- *)

Install ==
    \/ InstallOpen
    \/ \E r \in Requests : InstallFetchOk(r)
    \/ \E r \in Requests : InstallFetchFail(r)
    \/ InstallStore
    \/ InstallStoreFail
    \/ InstallSkipWaiting

Activate ==
    \/ ActivateDispatch
    \/ ActivateKeys
    \/ \E k \in BucketNames : ActivateDelete(k)
    \/ ActivateClaim
    \/ ActivateSettle

Fetch ==
    \/ \E r \in Requests : FetchDispatch(r)
    \/ \E i \in 1..MaxFetch, s \in PlainStatuses : ApiFetchOk(i, s)
    \/ \E i \in 1..MaxFetch : ApiFetchFail(i)
    \/ \E i \in 1..MaxFetch : StaticMatch(i)
    \/ \E i \in 1..MaxFetch, s \in Statuses : StaticFetchOk(i, s)
    \/ \E i \in 1..MaxFetch : StaticFetchFail(i)
    \/ \E i \in 1..MaxFetch : OfflineMatch(i)
    \/ \E i \in 1..MaxFetch, s \in PlainStatuses : ElseFetchOk(i, s)
    \/ \E i \in 1..MaxFetch : ElseFetchFail(i)
    \/ \E i \in 1..MaxFetch : ElseMatch(i)
    \/ \E i \in 1..MaxFetch : WriteOpen(i)
    \/ \E i \in 1..MaxFetch : WritePut(i)
    \/ \E i \in 1..MaxFetch : WritePutFail(i)

PriorWorker == PriorOpen \/ PriorPut \/ PriorPutOrphan

Next == Install \/ Activate \/ Fetch

NextRace == Next \/ PriorWorker

\* one worker version from install on, prior buckets left behind
Spec == Init /\ [][Next]_vars

\* the same, while a handler of the prior version still has a write pending
SpecRace == InitRace /\ [][NextRace]_vars

(* ------------------------------ claims -------------------------------- *)

HandlerIds == 1..Len(handlers)

\* the API rule as the specification words it: the configured API host
\* (part_000 configures one), or '/api/' anywhere in the path
IsApiAsSpecified(r) ==
    (variant = "A" /\ r.host = API_HOST) \/ IncludesSegment(r.path, "api")

\* C1: a fetch event whose URL has the API host or whose path contains
\* '/api/' never reads and never writes a cache bucket, in both variants.
C1_ApiNeverTouchesCache ==
    \A i \in HandlerIds :
        IsApiAsSpecified(handlers[i].req)
            => handlers[i].reads = 0 /\ handlers[i].write = "none"

\* C2: a static-classified request that has a cache entry is answered with
\* the stored response and no network call; once an entry for it exists
\* (a completed write), every request dispatched later is answered so.
C2_CacheFirstHit ==
    \A i \in HandlerIds :
        handlers[i].branch = "static" =>
            /\ (handlers[i].matched \notin {Pending, NoEntry}
                    => /\ handlers[i].pc = "done"
                       /\ handlers[i].resp = handlers[i].matched
                       /\ handlers[i].net = 0)
            /\ (handlers[i].cachedAtDispatch /\ handlers[i].pc = "done"
                    => /\ handlers[i].net = 0
                       /\ handlers[i].resp = handlers[i].matched
                       /\ handlers[i].resp \notin {NoEntry, Rejected, Pending})

\* C2 happens: a first request for a static file went to the network and
\* its write completed; a second one got that stored response, no network
C2_Witness ==
    /\ Len(handlers) = 2
    /\ handlers[1].req = Req(SelfHost, <<"static", "app.js">>)
    /\ handlers[2].req = handlers[1].req
    /\ handlers[1].write = "done"
    /\ handlers[2].pc = "done"
    /\ handlers[2].net = 0
    /\ handlers[2].resp = NetResponse(1, handlers[1].req, 200)

C4_OneBucketAfterActivation ==
    activations >= 1 => Buckets = {CACHE_NAME}

\* C5 as claimed: after install, a request for any listed asset is answered
\* with the response stored at install and without a network call.
C5_AssetsAnsweredFromCache ==
    \A i \in HandlerIds :
        (handlers[i].req \in AssetRequests /\ handlers[i].pc = "done")
            => handlers[i].net = 0 /\ handlers[i].resp = InstallResponse(handlers[i].req)

\* C5 amended: after install a lookup of every listed asset finds a stored
\* response; a request the worker classifies as static (all of part_000's,
\* the two '/static/' ones of sw.js) is answered with the response stored
\* at install and no network call; '/' in sw.js goes to the network first
\* and is answered from the cache only when the network fails.
C5_StaticAssetsAnsweredFromCache ==
    /\ skipWaiting => \A r \in AssetRequests : CachesMatch(r) # NoEntry
    /\ \A i \in HandlerIds :
        (handlers[i].req \in AssetRequests /\ handlers[i].pc = "done") =>
            /\ handlers[i].branch \in {"static", "else"}
            /\ handlers[i].branch = "static"
                  => /\ handlers[i].net = 0
                     /\ handlers[i].resp = InstallResponse(handlers[i].req)
            /\ handlers[i].branch = "else"
                  => /\ variant = "B"
                     /\ handlers[i].req = Req(SelfHost, <<"">>)
                     /\ handlers[i].net = 1
                     /\ handlers[i].network = "ok"
                            => handlers[i].resp \in
                                 {NetResponse(i, handlers[i].req, s) : s \in Statuses}
                     /\ handlers[i].network = "failed"
                            => /\ handlers[i].resp = handlers[i].matched
                               /\ handlers[i].resp.kind = "net"

\* C5 happens: each variant answered a listed static asset from the cache,
\* and sw.js answered '/' from the network
C5_Witness ==
    \E i \in HandlerIds :
        /\ handlers[i].pc = "done"
        /\ handlers[i].req \in AssetRequests
        /\ handlers[i].branch = "static"
        /\ handlers[i].resp = InstallResponse(handlers[i].req)
        /\ variant = "B" =>
              \E j \in HandlerIds :
                  /\ handlers[j].req = Req(SelfHost, <<"">>)
                  /\ handlers[j].pc = "done"
                  /\ handlers[j].network = "ok"

\* C6: an API-classified request whose fetch rejects is answered, never
\* rejected, with body {"error":"Offline"} and Content-Type application/json.
C6_ApiOfflineJson ==
    \A i \in HandlerIds :
        (handlers[i].branch = "api" /\ handlers[i].network = "failed") =>
            /\ handlers[i].pc = "done"
            /\ handlers[i].resp = [kind |-> "synth", status |-> 200,
                                   body |-> "{\"error\":\"Offline\"}",
                                   contentType |-> "application/json"]

\* C6 happens: '/api/articles' failed on the network and was answered
C6_Witness ==
    \E i \in HandlerIds :
        /\ handlers[i].req = Req(SelfHost, <<"api", "articles">>)
        /\ handlers[i].network = "failed"
        /\ handlers[i].pc = "done"
        /\ handlers[i].resp.kind = "synth"

\* C7: a static-classified request with no cache entry whose fetch rejects
\* is answered with the pre-cached offline.html by part_000 and with a
\* rejected promise by sw.js.
C7_OfflineFallback ==
    \A i \in HandlerIds :
        (/\ handlers[i].branch = "static"
         /\ handlers[i].matched = NoEntry
         /\ handlers[i].network = "failed"
         /\ handlers[i].pc = "done") =>
            /\ variant = "A" => handlers[i].resp = InstallResponse(OfflinePage)
            /\ variant = "B" => handlers[i].resp = Rejected

\* C7 happens: a miss with a failed fetch has been answered, by part_000
\* after its second lookup
C7_Witness ==
    \E i \in HandlerIds :
        /\ handlers[i].branch = "static"
        /\ handlers[i].matched = NoEntry
        /\ handlers[i].network = "failed"
        /\ handlers[i].pc = "done"
        /\ variant = "A"
        /\ handlers[i].reads = 2
        /\ handlers[i].resp = InstallResponse(OfflinePage)

\* C8: while only the current bucket exists, no step of activate deletes a
\* bucket or changes an entry; a second run leaves what the first left.
C8_ActivateIdempotent ==
    [][(Activate /\ Buckets = {CACHE_NAME})
          => (cacheKeys' = cacheKeys /\ store' = store)]_vars

\* C8 happens: activate has run twice, the second time enumerating only
\* the current bucket, which also holds an entry a fetch handler wrote
C8_Witness ==
    /\ activations = 2
    /\ phase = "activated"
    /\ akeys = {CACHE_NAME}
    /\ adeleted = {}
    /\ cacheKeys = <<CACHE_NAME>>
    /\ \E i \in HandlerIds :
          /\ handlers[i].write = "done"
          /\ store[CACHE_NAME][handlers[i].req] = handlers[i].resp

\* C9: skipWaiting is called only once the current bucket holds a response
\* for every listed asset; when a fetch or the storing fails, skipWaiting
\* is never called and install never completes.
C9_InstallOrdering ==
    /\ [](/\ skipWaiting =>
               /\ CACHE_NAME \in Buckets
               /\ \A r \in AssetRequests : store[CACHE_NAME][r] # NoEntry
          /\ phase = "redundant" => (~skipWaiting /\ activations = 0)
          /\ phase \notin {"installing", "adding", "added", "redundant"} => skipWaiting)
    /\ [][phase = "redundant" => phase' = "redundant"]_vars

\* C9 happens: skipWaiting was called with every asset stored
C9_Witness ==
    /\ skipWaiting
    /\ phase = "installed"
    /\ fetched = AssetRequests
    /\ \A r \in AssetRequests : store[CACHE_NAME][r] = InstallResponse(r)

\* C10: clients.claim is called only after the delete of every enumerated
\* bucket other than the current one has completed (none of them is still
\* waiting to be deleted when pages are claimed), and activate is not
\* finished before the claim.
C10_ActivateOrdering ==
    /\ claimed => \A k \in akeys : k # CACHE_NAME => k \in adeleted
    /\ adeleted \subseteq akeys \ {CACHE_NAME}
    /\ (phase = "activated" /\ activations >= 1) => claimed
    /\ phase \in {"activating", "deleting"} => ~claimed
    /\ phase = "claiming" => claimed

\* C10 happens: two prior buckets were enumerated and deleted, then claim
C10_Witness ==
    /\ claimed
    /\ phase = "claiming"
    /\ Cardinality(akeys \ {CACHE_NAME}) = 2
    /\ Cardinality(adeleted) = 2

\* C11: sw.js, a request that is neither API nor '/static/': on network
\* success the network response is returned and a copy is put in the current
\* bucket under that request; on network failure the handler returns exactly
\* what the bucket holds for that request, and fails if it holds nothing.
C11_NetworkFirstWriteThrough ==
    /\ [](\A i \in HandlerIds :
            (variant = "B" /\ handlers[i].branch = "else") =>
                /\ handlers[i].network = "ok" =>
                      /\ handlers[i].pc = "done"
                      /\ handlers[i].resp \in
                            {NetResponse(i, handlers[i].req, s) : s \in Statuses}
                      /\ handlers[i].write # "none"
                      /\ handlers[i].reads = 0
                /\ (handlers[i].network = "failed" /\ handlers[i].pc = "done") =>
                      /\ handlers[i].reads = 1
                      /\ handlers[i].write = "none"
                      /\ handlers[i].resp = handlers[i].matched
                      /\ handlers[i].resp.kind \in {"net", "none"})
    /\ [][\A i \in HandlerIds :
            (variant = "B" /\ handlers[i].branch = "else") =>
                /\ WritePut(i) =>
                      store'[CACHE_NAME][handlers[i].req] = handlers[i].resp
                /\ ElseMatch(i) =>
                      handlers'[i].resp = store[CACHE_NAME][handlers[i].req]]_vars

\* C11 happens: sw.js fetched '/' and stored it over the installed entry; a
\* second request for it failed on the network and got that stored copy
C11_Witness ==
    /\ variant = "B"
    /\ Len(handlers) = 2
    /\ handlers[1].req = Req(SelfHost, <<"">>)
    /\ handlers[2].req = handlers[1].req
    /\ handlers[1].write = "done"
    /\ handlers[2].network = "failed"
    /\ handlers[2].pc = "done"
    /\ handlers[2].resp = handlers[1].resp
    /\ handlers[2].resp = store[CACHE_NAME][handlers[2].req]

\* C12: every fetch event is handled by exactly one strategy with one
\* respondWith call; the API rule is tested first, so a request matching it
\* and the static rule is network-only with the JSON fallback, never
\* cache-first.
C12_ClassificationOrdered ==
    \A i \in HandlerIds :
        /\ handlers[i].responds = 1
        /\ handlers[i].branch \in {"api", "static", "else"}
        /\ RuleMatches(variant, "api", handlers[i].req) =>
              /\ handlers[i].branch = "api"
              /\ handlers[i].reads = 0
              /\ handlers[i].matched = Pending
              /\ handlers[i].write = "none"
              /\ handlers[i].pc = "done" =>
                    /\ handlers[i].net = 1
                    /\ handlers[i].network = "ok" => handlers[i].resp.kind = "net"
                    /\ handlers[i].network = "failed" => handlers[i].resp.kind = "synth"
        /\ (~RuleMatches(variant, "api", handlers[i].req)
              /\ RuleMatches(variant, "static", handlers[i].req))
              => handlers[i].branch = "static"
        /\ (~RuleMatches(variant, "api", handlers[i].req)
              /\ ~RuleMatches(variant, "static", handlers[i].req))
              => handlers[i].branch = "else"
        /\ handlers[i].branch = "api" => handlers[i].pc \in {"api", "done"}
        /\ handlers[i].branch = "static"
              => handlers[i].pc \in {"static", "static_fetch", "offline_match", "done"}
        /\ handlers[i].branch = "else" => handlers[i].pc \in {"else", "else_match", "done"}

\* C12 happens: part_000 answered a same-origin '/api/articles', which
\* matches both rules, with the JSON fallback
C12_Witness ==
    \E i \in HandlerIds :
        /\ variant = "A"
        /\ handlers[i].req = Req(SelfHost, <<"api", "articles">>)
        /\ RuleMatches(variant, "static", handlers[i].req)
        /\ handlers[i].pc = "done"
        /\ handlers[i].resp = OfflineResponse

\* two cache-first handlers for one request that both missed the cache and
\* both got a network response
Racers(i, j) ==
    /\ i # j
    /\ handlers[i].req = handlers[j].req
    /\ \A h \in {i, j} :
          /\ handlers[h].branch = "static"
          /\ handlers[h].matched = NoEntry
          /\ handlers[h].network = "ok"

\* C13: two handlers that race on one key each return their own network
\* response, neither fails or waits for the other, each put replaces what
\* the bucket held for the request, and after both puts the bucket's entry
\* for it is one of the two responses: that of the put that completed last.
C13_SameKeyLastWriteWins ==
    /\ [](\A i \in HandlerIds : \A j \in HandlerIds :
            Racers(i, j) =>
                /\ handlers[i].pc = "done"
                /\ handlers[i].resp \in
                      {NetResponse(i, handlers[i].req, s) : s \in Statuses}
                /\ handlers[i].resp # handlers[j].resp
                /\ handlers[i].write \in {"open", "put", "done", "failed"}
                /\ handlers[i].write = "open" => ENABLED WriteOpen(i)
                /\ handlers[i].write = "put" => ENABLED WritePut(i)
                /\ (/\ handlers[i].write = "done"
                    /\ handlers[j].write = "done"
                    /\ \A k \in HandlerIds \ {i, j} :
                          handlers[k].req = handlers[i].req => handlers[k].write = "none")
                      => store[CACHE_NAME][handlers[i].req]
                            \in {handlers[i].resp, handlers[j].resp})
    /\ [][\A i \in HandlerIds :
            /\ WritePut(i) => store'[CACHE_NAME][handlers[i].req] = handlers[i].resp
            /\ store'[CACHE_NAME][handlers[i].req] # store[CACHE_NAME][handlers[i].req]
                  => \/ InstallStore
                     \/ \E k \in HandlerIds :
                           WritePut(k) /\ handlers[k].req = handlers[i].req]_vars

\* C13 happens: both racers' puts completed, the put of the handler
\* dispatched first completing last
C13_Witness ==
    /\ Len(handlers) = 2
    /\ Racers(1, 2)
    /\ handlers[1].write = "done"
    /\ handlers[2].write = "done"
    /\ store[CACHE_NAME][handlers[1].req] = handlers[1].resp
    /\ handlers[2].resp = NetResponse(2, handlers[2].req, 200)

\* C14: on a cache-first miss or a network-first success the response is
\* delivered in the step the fetch resolves, before the write has started,
\* and stays the delivered response while the write is pending, completed
\* or failed.
C14_FireAndForgetWrite ==
    /\ [](\A i \in HandlerIds :
            handlers[i].write # "none" =>
                /\ handlers[i].branch \in {"static", "else"}
                /\ handlers[i].network = "ok"
                /\ handlers[i].pc = "done"
                /\ handlers[i].resp \in
                      {NetResponse(i, handlers[i].req, s) : s \in Statuses})
    /\ [][\A i \in HandlerIds :
            /\ (handlers[i].network = "none" /\ handlers'[i].network = "ok"
                   /\ handlers[i].branch # "api")
                  => /\ handlers'[i].resp \in
                           {NetResponse(i, handlers[i].req, s) : s \in Statuses}
                     /\ handlers'[i].write \in {"open", "none"}
            /\ handlers[i].write # "none" => handlers'[i].resp = handlers[i].resp
            /\ (WriteOpen(i) \/ WritePut(i) \/ WritePutFail(i))
                  => handlers'[i].pc = handlers[i].pc]_vars

\* C14 happens: the write of a cache-first miss failed, the page has the
\* network response
C14_Witness ==
    \E i \in HandlerIds :
        /\ handlers[i].branch = "static"
        /\ handlers[i].write = "failed"
        /\ handlers[i].pc = "done"
        /\ handlers[i].resp = NetResponse(i, handlers[i].req, 200)

\* C15: a cache-first miss that the network answers, with status 500 as
\* with 200, returns that response as it is and puts it in the bucket; a
\* later request that finds the stored 500 is answered with it, without a
\* network call and without a fallback.
C15_ErrorStatusIsSuccess ==
    /\ [](\A i \in HandlerIds :
            handlers[i].branch = "static" =>
                /\ (handlers[i].matched = NoEntry /\ handlers[i].network = "ok") =>
                      /\ handlers[i].pc = "done"
                      /\ handlers[i].resp \in
                            {NetResponse(i, handlers[i].req, s) : s \in Statuses}
                      /\ handlers[i].write # "none"
                      /\ handlers[i].reads = 1
                /\ \A j \in HandlerIds :
                      handlers[i].matched = NetResponse(j, handlers[i].req, 500) =>
                          /\ handlers[i].pc = "done"
                          /\ handlers[i].resp = NetResponse(j, handlers[i].req, 500)
                          /\ handlers[i].net = 0)
    /\ [][\A i \in HandlerIds :
            (WritePut(i) /\ handlers[i].resp = NetResponse(i, handlers[i].req, 500))
                => store'[CACHE_NAME][handlers[i].req]
                      = NetResponse(i, handlers[i].req, 500)]_vars

\* C15 happens: a 500 was returned and stored, and a second request for
\* the same file got the stored 500 without a network call
C15_Witness ==
    /\ Len(handlers) = 2
    /\ handlers[1].branch = "static"
    /\ handlers[1].resp = NetResponse(1, handlers[1].req, 500)
    /\ handlers[1].write = "done"
    /\ handlers[2].req = handlers[1].req
    /\ handlers[2].pc = "done"
    /\ handlers[2].net = 0
    /\ handlers[2].resp = NetResponse(1, handlers[1].req, 500)

\* a handler whose answer came out of a caches.match: a cache-first hit,
\* the fallback of the last branch, or the offline page
ServedFromCache(i) ==
    /\ handlers[i].pc = "done"
    /\ handlers[i].reads >= 1
    /\ handlers[i].network # "ok"
    /\ handlers[i].resp \notin {Pending, NoEntry, Rejected}

\* C16: every response a handler serves from the cache was stored in the
\* bucket of the current version (at install or by a handler's put); an
\* entry that only a bucket of another version holds is never served.
C16_ServedFromCurrentBucket ==
    \A i \in HandlerIds :
        ServedFromCache(i) => handlers[i].resp.kind = "net"

\* C17: once the current bucket exists it is never deleted, and once it
\* holds an entry for a request it holds one in every later state.
C17_EntriesOnlyAdded ==
    [][/\ CACHE_NAME \in Buckets => CACHE_NAME \in Range(cacheKeys')
       /\ \A r \in Requests :
             store[CACHE_NAME][r] # NoEntry => store'[CACHE_NAME][r] # NoEntry]_vars

\* C17 happens: after install, fetches and two runs of activate the bucket
\* still holds every listed asset and an entry a fetch handler added
C17_Witness ==
    /\ activations = 2
    /\ phase = "activated"
    /\ \A r \in AssetRequests : store[CACHE_NAME][r] # NoEntry
    /\ \E i \in HandlerIds :
          /\ handlers[i].req \notin AssetRequests
          /\ handlers[i].write = "done"
          /\ store[CACHE_NAME][handlers[i].req] = handlers[i].resp

====
